---------------------------- MODULE Spec2Model ----------------------------
(***************************************************************************)
(* Splitter: the expense normalizer of fetchUserData and the balance       *)
(* computation of App (src/App.tsx), over JavaScript numbers.              *)
(***************************************************************************)
EXTENDS Integers, Sequences, FiniteSets, TLC

(***************************************************************************)
(* JavaScript numbers.  A number is an IEEE-754 binary64 value: NaN, an    *)
(* infinity, or s * m * 2^e with m below 2^Precision.  The magnitude m is  *)
(* a natural number held as a sequence of limbs in base LimbBase, least    *)
(* significant first, with no leading zero limb (zero is << >>), because   *)
(* it does not fit the checker's machine integers.  A finite number is     *)
(* kept canonical (m odd, or the number is zero with e = 0) so that        *)
(* equality of records is equality of values.  The two zeros of binary64   *)
(* are one value here: no operation below tells them apart except          *)
(* division by zero, whose divisors (a length, an amount read from JSON)   *)
(* are +0.  Exponents stay far inside binary64's range for the amounts of  *)
(* the model, so overflow and subnormals do not arise.                     *)
(***************************************************************************)
Precision == 53
LimbBase == 2^15
LimbBits == CHOOSE n \in 1..30 : 2^n = LimbBase

RECURSIVE BNorm(_)
BNorm(a) ==
    IF a = << >> THEN a
    ELSE IF a[Len(a)] = 0 THEN BNorm(SubSeq(a, 1, Len(a) - 1)) ELSE a

RECURSIVE BCmpAt(_, _, _)
BCmpAt(a, b, i) ==
    IF i = 0 THEN 0
    ELSE IF a[i] < b[i] THEN -1
    ELSE IF a[i] > b[i] THEN 1
    ELSE BCmpAt(a, b, i - 1)

BCmp(a, b) ==
    IF Len(a) < Len(b) THEN -1
    ELSE IF Len(a) > Len(b) THEN 1
    ELSE BCmpAt(a, b, Len(a))

RECURSIVE BAddC(_, _, _, _)
BAddC(a, b, i, c) ==
    IF i > Len(a) /\ i > Len(b) THEN (IF c = 0 THEN << >> ELSE <<c>>)
    ELSE LET x == (IF i <= Len(a) THEN a[i] ELSE 0)
                  + (IF i <= Len(b) THEN b[i] ELSE 0) + c
         IN  <<x % LimbBase>> \o BAddC(a, b, i + 1, x \div LimbBase)

BAdd(a, b) == BAddC(a, b, 1, 0)

RECURSIVE BSubC(_, _, _, _)
BSubC(a, b, i, br) ==
    IF i > Len(a) THEN << >>
    ELSE LET x == a[i] - (IF i <= Len(b) THEN b[i] ELSE 0) - br
         IN  IF x < 0 THEN <<x + LimbBase>> \o BSubC(a, b, i + 1, 1)
             ELSE <<x>> \o BSubC(a, b, i + 1, 0)

\* a - b for a >= b
BSub(a, b) == BNorm(BSubC(a, b, 1, 0))

RECURSIVE BMulSmallC(_, _, _, _)
BMulSmallC(a, k, i, c) ==
    IF i > Len(a) THEN (IF c = 0 THEN << >> ELSE <<c>>)
    ELSE LET x == a[i] * k + c
         IN  <<x % LimbBase>> \o BMulSmallC(a, k, i + 1, x \div LimbBase)

\* a * k for 0 <= k < LimbBase
BMulSmall(a, k) == IF k = 0 THEN << >> ELSE BMulSmallC(a, k, 1, 0)

BShlLimbs(a, q) ==
    IF a = << >> THEN a
    ELSE [i \in 1..(Len(a) + q) |-> IF i <= q THEN 0 ELSE a[i - q]]

RECURSIVE BMulAt(_, _, _)
BMulAt(a, b, j) ==
    IF j > Len(b) THEN << >>
    ELSE BAdd(BShlLimbs(BMulSmall(a, b[j]), j - 1), BMulAt(a, b, j + 1))

BMul(a, b) == BMulAt(a, b, 1)

RECURSIVE BDivSmallAt(_, _, _, _)
BDivSmallAt(a, k, i, r) ==
    IF i = 0 THEN << >>
    ELSE LET x == r * LimbBase + a[i]
         IN  BDivSmallAt(a, k, i - 1, x % k) \o <<x \div k>>

\* a \div k for 0 < k < LimbBase
BDivSmall(a, k) == BNorm(BDivSmallAt(a, k, Len(a), 0))

\* a * 2^n and a \div 2^n
BShl(a, n) == BMulSmall(BShlLimbs(a, n \div LimbBits), 2^(n % LimbBits))
BShr(a, n) ==
    IF n \div LimbBits >= Len(a) THEN << >>
    ELSE BDivSmall(SubSeq(a, (n \div LimbBits) + 1, Len(a)), 2^(n % LimbBits))

BitLen(a) ==
    IF a = << >> THEN 0
    ELSE LimbBits * (Len(a) - 1)
         + (CHOOSE n \in 1..LimbBits : 2^(n - 1) <= a[Len(a)] /\ a[Len(a)] < 2^n)

\* bit i (from 0) of a
BBit(a, i) ==
    IF i \div LimbBits >= Len(a) THEN 0
    ELSE (a[(i \div LimbBits) + 1] \div 2^(i % LimbBits)) % 2

BOdd(a) == a # << >> /\ a[1] % 2 = 1

RECURSIVE BTrailingZeros(_, _)
BTrailingZeros(a, i) ==
    IF a[i] = 0 THEN LimbBits + BTrailingZeros(a, i + 1)
    ELSE CHOOSE n \in 0..(LimbBits - 1) : a[i] % 2^n = 0 /\ a[i] % 2^(n + 1) # 0

NaN == [k |-> "nan", s |-> 0, m |-> << >>, e |-> 0]
Infinity(s) == [k |-> "inf", s |-> s, m |-> << >>, e |-> 0]
Zero == [k |-> "num", s |-> 0, m |-> << >>, e |-> 0]

\* the canonical record of s * n * 2^e, n below 2^Precision
Canon(s, n, e) ==
    IF n = << >> THEN Zero
    ELSE LET tz == BTrailingZeros(n, 1)
         IN  [k |-> "num", s |-> s, m |-> BShr(n, tz), e |-> e + tz]

\* s * n * 2^e rounded to Precision bits, to nearest, ties to even
Round(s, n, e) ==
    IF BitLen(n) <= Precision THEN Canon(s, n, e)
    ELSE LET d    == BitLen(n) - Precision
             q    == BShr(n, d)
             rem  == BSub(n, BShl(q, d))
             c    == BCmp(rem, BShl(<<1>>, d - 1))
             up   == c > 0 \/ (c = 0 /\ BOdd(q))
         IN  Canon(s, IF up THEN BAdd(q, <<1>>) ELSE q, e + d)

\* a small integer literal
RECURSIVE NatLimbs(_)
NatLimbs(n) == IF n = 0 THEN << >> ELSE <<n % LimbBase>> \o NatLimbs(n \div LimbBase)
Num(i) ==
    IF i = 0 THEN Zero
    ELSE IF i < 0 THEN Canon(-1, NatLimbs(-i), 0) ELSE Canon(1, NatLimbs(i), 0)

IsFinite(x) == x.k = "num"
IsNaN(x) == x.k = "nan"
NumNeg(x) == [x EXCEPT !.s = -x.s]

\* x + y
NumAdd(x, y) ==
    IF IsNaN(x) \/ IsNaN(y) THEN NaN
    ELSE IF x.k = "inf" THEN (IF y.k = "inf" /\ y.s # x.s THEN NaN ELSE x)
    ELSE IF y.k = "inf" THEN y
    ELSE IF x.s = 0 THEN y
    ELSE IF y.s = 0 THEN x
    ELSE LET e == IF x.e < y.e THEN x.e ELSE y.e
             a == BShl(x.m, x.e - e)
             b == BShl(y.m, y.e - e)
             c == BCmp(a, b)
         IN  IF x.s = y.s THEN Round(x.s, BAdd(a, b), e)
             ELSE IF c = 0 THEN Zero
             ELSE IF c > 0 THEN Round(x.s, BSub(a, b), e)
             ELSE Round(y.s, BSub(b, a), e)

\* x - y
NumSub(x, y) == NumAdd(x, NumNeg(y))

\* x * y
NumMul(x, y) ==
    IF IsNaN(x) \/ IsNaN(y) THEN NaN
    ELSE IF x.k = "inf" \/ y.k = "inf"
         THEN (IF x.s = 0 \/ y.s = 0 THEN NaN ELSE Infinity(x.s * y.s))
    ELSE IF x.s = 0 \/ y.s = 0 THEN Zero
    ELSE Round(x.s * y.s, BMul(x.m, y.m), x.e + y.e)

\* Long division of n * 2^k by d, one quotient bit per step: st.i is the bit
\* of the dividend to bring down, st.r the remainder and st.q the quotient
\* so far.
DivStep(n, d, k, st) ==
    LET r2 == BMulSmallC(st.r, 2, 1, IF st.i >= k THEN BBit(n, st.i - k) ELSE 0)
        ge == BCmp(r2, d) >= 0
    IN  [i |-> st.i - 1,
         r |-> IF ge THEN BSub(r2, d) ELSE r2,
         q |-> BMulSmallC(st.q, 2, 1, IF ge THEN 1 ELSE 0)]

\* cnt steps of the division (halving keeps the evaluation shallow).  Once
\* the bits of n are used up and the remainder is zero, the quotient bits
\* that remain are zero.
RECURSIVE DivSteps(_, _, _, _, _)
DivSteps(n, d, k, st, cnt) ==
    IF cnt = 0 \/ st.i < 0 THEN st
    ELSE IF st.i < k /\ st.r = << >>
         THEN [i |-> -1, r |-> st.r, q |-> BShl(st.q, st.i + 1)]
    ELSE IF cnt = 1 THEN DivStep(n, d, k, st)
    ELSE DivSteps(n, d, k, DivSteps(n, d, k, st, cnt \div 2), cnt - (cnt \div 2))

\* x / y: the quotient is taken to at least Precision + 2 bits and a sticky
\* bit for the remainder, then rounded
NumDiv(x, y) ==
    IF IsNaN(x) \/ IsNaN(y) THEN NaN
    ELSE IF x.k = "inf"
         THEN (IF y.k = "inf" THEN NaN ELSE Infinity(IF y.s < 0 THEN -x.s ELSE x.s))
    ELSE IF y.k = "inf" THEN Zero
    ELSE IF y.s = 0 THEN (IF x.s = 0 THEN NaN ELSE Infinity(x.s))
    ELSE IF x.s = 0 THEN Zero
    ELSE LET k  == Precision + 2 + BitLen(y.m) - BitLen(x.m)
             st == DivSteps(x.m, y.m, k,
                            [i |-> BitLen(x.m) + k - 1, r |-> << >>, q |-> << >>],
                            BitLen(x.m) + k)
             n  == BMulSmallC(st.q, 2, 1, IF st.r = << >> THEN 0 ELSE 1)
         IN  Round(x.s * y.s, n, x.e - y.e - k - 1)

\* x < y, false when either is NaN
NumLess(x, y) ==
    /\ ~IsNaN(x) /\ ~IsNaN(y)
    /\ LET d == NumSub(x, y)
       IN  IF IsNaN(d) THEN FALSE    \* equal infinities
           ELSE d.s < 0

NumAbs(x) == IF x.s < 0 THEN NumNeg(x) ELSE x

\* x || 0: the number when it is truthy, 0 when it is 0, NaN or undefined
OrZero(x) == IF IsNaN(x) THEN Zero ELSE x

(***************************************************************************)
(* Data.  Profile ids are strings.  A stored expense row carries paid_by   *)
(* as JSON: paid_by.t is the kind of the JSON value, paid_by.id the string *)
(* when it is a string, paid_by.map the entries (in key order) when it is  *)
(* an object.  split_between.t is "array" or "null".  A canonical Expense  *)
(* holds paidBy as its entries [id, amt] in key order (Object.entries) and *)
(* splitBetween as a sequence.  description, date, category and created_by *)
(* are copied through by the code and read by nothing modelled here.       *)
(***************************************************************************)
MaxRows == 2

Uid == "A"      \* session.user.id

NullProfile == [id |-> ""]      \* userProfile = null

JString(id) == [t |-> "string", id |-> id, map |-> << >>]
JObject(map) == [t |-> "object", id |-> "", map |-> map]
JNull == [t |-> "null", id |-> "", map |-> << >>]
JArray(v) == [t |-> "array", v |-> v]
JNoArray == [t |-> "null", v |-> << >>]
JAbsent == [t |-> "undefined", id |-> "", map |-> << >>]
JNumber == [t |-> "number", id |-> "", map |-> << >>]
JBoolean == [t |-> "boolean", id |-> "", map |-> << >>]
\* an array of numbers: its entries are its indices, as strings, and its items
IndexKey(i) == <<"0", "1", "2">>[i]
JList(items) ==
    [t |-> "array", id |-> "",
     map |-> [i \in 1..Len(items) |-> [id |-> IndexKey(i), amt |-> Num(items[i])]]]
Paid(id, n) == [id |-> id, amt |-> Num(n)]

\* typeof v
TypeOf(v) == IF v.t \in {"object", "array", "null"} THEN "object" ELSE v.t

\* the rows the expenses table may hold
E1 == [id |-> "e1", amount |-> Num(300), paid_by |-> JString("A"),
       split_between |-> JArray(<<"A", "B", "C">>)]
E2 == [id |-> "e2", amount |-> Num(200), paid_by |-> JObject(<<Paid("B", 200)>>),
       split_between |-> JArray(<<"A", "B">>)]
E3 == [id |-> "e3", amount |-> Num(100),
       paid_by |-> JObject(<<Paid("A", 10), Paid("B", 60)>>),
       split_between |-> JArray(<<"B", "A", "D">>)]
E4 == [id |-> "e4", amount |-> Num(0), paid_by |-> JString("A"),
       split_between |-> JArray(<<"A", "B">>)]
E5 == [id |-> "e5", amount |-> Num(50), paid_by |-> JString("B"),
       split_between |-> JNoArray]
E6 == [id |-> "e6", amount |-> Num(90), paid_by |-> JObject(<<Paid("B", 90)>>),
       split_between |-> JArray(<<"B", "C">>)]
E7 == [id |-> "e7", amount |-> Num(40), paid_by |-> JString("A"),
       split_between |-> JArray(<<"A">>)]
ExpenseRows == {E1, E2, E3, E4, E5, E6, E7}

\* rows whose paid_by is missing or is no payer at all
E8 == [id |-> "e8", amount |-> Num(70), paid_by |-> JNull,
       split_between |-> JNoArray]
E9 == [id |-> "e9", amount |-> Num(80), paid_by |-> JAbsent,
       split_between |-> JArray(<<"A", "B">>)]
E10 == [id |-> "e10", amount |-> Num(60), paid_by |-> JNumber,
        split_between |-> JArray(<<"A", "B">>)]
E11 == [id |-> "e11", amount |-> Num(20), paid_by |-> JBoolean,
        split_between |-> JArray(<<"A", "B">>)]
E12 == [id |-> "e12", amount |-> Num(300), paid_by |-> JList(<<300>>),
        split_between |-> JArray(<<"A", "B">>)]
\* the rows of such a table, by date
StoredRows == <<E12, E1, E8, E9, E10, E11>>
Rows(picked) ==
    LET upTo[i \in 0..Len(StoredRows)] ==
            IF i = 0 THEN << >>
            ELSE IF i \in picked THEN Append(upTo[i - 1], StoredRows[i])
            ELSE upTo[i - 1]
    IN  upTo[Len(StoredRows)]
StoredLists ==
    {Rows(picked) : picked \in {p \in SUBSET (1..Len(StoredRows)) : Cardinality(p) <= MaxRows}}

\* a table that has room for one more row, and a table that is full
SeedRows == SubSeq(<<E2, E1, E6, E3, E7>>, 1, MaxRows - 1)
FullRows == SubSeq(<<E2, E1, E6, E3, E7>>, 1, MaxRows)

\* the results of the expenses query: rows with distinct ids, in any date order
RowLists ==
    UNION {{l \in [1..n -> ExpenseRows] :
              \A i, j \in 1..n : i # j => l[i] # l[j]} : n \in 0..MaxRows}

\* friend_requests rows touching Uid, with the joined sender and receiver
Req(id, from, to, status) ==
    [id |-> id, sender_id |-> from, receiver_id |-> to, status |-> status,
     sender |-> [id |-> from], receiver |-> [id |-> to]]
RequestLists ==
    { <<Req("r1", "A", "B", "accepted"), Req("r2", "B", "A", "accepted")>>,
      <<Req("r1", "A", "B", "accepted"), Req("r3", "C", "A", "accepted"),
        Req("r4", "D", "A", "pending")>> }

VARIABLES
    dbProfile,      \* whether the profiles table holds the row of Uid
    dbRequests,     \* the friend_requests rows the backend returns for Uid
    dbExpenses,     \* the expenses rows the backend returns, by date
    userProfile, friends, requests, expenses,   \* the state of App
    balances,       \* the memoized balances of the last render
    isAddModalOpen, \* App: whether AddExpenseModal is open
    amount, description, isMultiPayer, singlePayerId, multiPayers,
    splitBetween, isMagicMode, magicText, isThinking,  \* the state of AddExpenseModal
    lastCall,       \* the last call to a collaborator and what came of it
    session,        \* App: the id of the session's user, NoSession for null
    loading,        \* App: whether the loading screen is shown
    calls           \* the calls of fetchUserData that await an answer, in the
                    \* order they started, and the last one started once it ended

dbVars == <<dbProfile, dbRequests, dbExpenses>>
appVars == <<userProfile, friends, requests, expenses, balances>>
fieldVars == <<amount, description, isMultiPayer, singlePayerId, multiPayers,
               splitBetween>>
formVars == <<isAddModalOpen, amount, description, isMultiPayer, singlePayerId,
              multiPayers, splitBetween, isMagicMode, magicText, isThinking>>

asyncVars == <<session, loading, calls>>

vars == <<dbProfile, dbRequests, dbExpenses, userProfile, friends, requests,
          expenses, balances, isAddModalOpen, amount, description, isMultiPayer,
          singlePayerId, multiPayers, splitBetween, isMagicMode, magicText,
          isThinking, lastCall, session, loading, calls>>

NoSession == ""     \* session = null

\* useState(null), useState(true): App as it is constructed
Constructed ==
    /\ session = NoSession
    /\ loading = TRUE
    /\ calls = << >>

\* a fetch called for the session of Uid that ran to its finally at once
Finally ==
    /\ session' = Uid
    /\ loading' = FALSE
    /\ UNCHANGED calls

\* lastCall: op is the handler that called ("fetch", "add", "delete",
\* "magic"), result what the collaborator did ("ok", "error" for an answer
\* that carries an error and no data, "throw" for a rejected call), alerted
\* whether the handler called alert(), draft the expense handed to onAdd and
\* id the expense handed to onDelete
NoDraft == [amount |-> NaN, paidBy |-> << >>, splitBetween |-> << >>]
Call(op, result, alerted, draft, id) ==
    [op |-> op, result |-> result, alerted |-> alerted, draft |-> draft, id |-> id]
NoCall == Call("none", "none", FALSE, NoDraft, "")

(***************************************************************************)
(* fetchUserData: the friends list, the pending requests and the           *)
(* normalization of the stored expenses.                                   *)
(***************************************************************************)
HasId(list, id) == \E i \in 1..Len(list) : list[i].id = id

\* Confirmed that takes every request for a friendship, whatever its status
RECURSIVE Confirmed_AnyStatus(_, _, _, _)
Confirmed_AnyStatus(reqs, uid, i, confirmed) ==
    IF i > Len(reqs) THEN confirmed
    ELSE LET req    == reqs[i]
             friend == IF req.sender_id = uid THEN req.receiver ELSE req.sender
         IN  Confirmed_AnyStatus(reqs, uid, i + 1,
                 IF ~HasId(confirmed, friend.id)
                 THEN Append(confirmed, [id |-> friend.id, isMe |-> FALSE])
                 ELSE confirmed)

\* reqs.forEach: an accepted request adds its other end to confirmed, once
RECURSIVE Confirmed(_, _, _, _)
Confirmed(reqs, uid, i, confirmed) ==
    IF i > Len(reqs) THEN confirmed
    ELSE LET req    == reqs[i]
             friend == IF req.sender_id = uid THEN req.receiver ELSE req.sender
         IN  Confirmed(reqs, uid, i + 1,
                 IF req.status = "accepted" /\ ~HasId(confirmed, friend.id)
                 THEN Append(confirmed, [id |-> friend.id, isMe |-> FALSE])
                 ELSE confirmed)

\* reqs.forEach: a pending request received by uid is pushed to pending
Pending(reqs, uid) ==
    SelectSeq(reqs, LAMBDA req : /\ req.status # "accepted"
                                 /\ req.status = "pending"
                                 /\ req.receiver_id = uid)

\* FormatExpense without the legacy case: a string paid_by is dropped
FormatExpense_NoLegacy(e) ==
    [id |-> e.id,
     amount |-> e.amount,
     paidBy |-> IF TypeOf(e.paid_by) = "object" /\ e.paid_by.t # "null"
                THEN e.paid_by.map ELSE << >>,
     splitBetween |-> IF e.split_between.t = "null" THEN << >> ELSE e.split_between.v]

\* FormatExpense reading a mapping as the legacy form: its first key paid
\* the whole amount
FormatExpense_FirstPayerPaidAll(e) ==
    [id |-> e.id,
     amount |-> e.amount,
     paidBy |-> IF TypeOf(e.paid_by) = "string"
                THEN <<[id |-> e.paid_by.id, amt |-> e.amount]>>
                ELSE IF TypeOf(e.paid_by) = "object" /\ e.paid_by.t # "null"
                        /\ e.paid_by.map # << >>
                THEN <<[id |-> e.paid_by.map[1].id, amt |-> e.amount]>>
                ELSE << >>,
     splitBetween |-> IF e.split_between.t = "null" THEN << >> ELSE e.split_between.v]

\* FormatExpense without the typeof tests: whatever paid_by is, it is taken
\* for the id of the payer of the whole amount
FormatExpense_MissingIsLegacy(e) ==
    [id |-> e.id,
     amount |-> e.amount,
     paidBy |-> IF TypeOf(e.paid_by) = "object" /\ e.paid_by.t # "null"
                THEN e.paid_by.map
                ELSE <<[id |-> IF e.paid_by.t = "string" THEN e.paid_by.id ELSE e.paid_by.t,
                        amt |-> e.amount]>>,
     splitBetween |-> IF e.split_between.t = "null" THEN << >> ELSE e.split_between.v]

\* the callback of (exps || []).map
FormatExpense(e) ==
    LET paidByMap ==
            IF TypeOf(e.paid_by) = "string"
            THEN <<[id |-> e.paid_by.id, amt |-> e.amount]>>
            ELSE IF TypeOf(e.paid_by) = "object" /\ e.paid_by.t # "null"
            THEN e.paid_by.map
            ELSE << >>
    IN  [id |-> e.id,
         amount |-> e.amount,
         paidBy |-> paidByMap,
         splitBetween |-> IF e.split_between.t = "null" THEN << >>
                          ELSE e.split_between.v]

formattedExpenses(exps) == [i \in 1..Len(exps) |-> FormatExpense(exps[i])]

(***************************************************************************)
(* balances (useMemo).  bals is the object of the code as its entries      *)
(* [friendId, amount] in insertion order, which is the order of            *)
(* Object.entries for the non-numeric keys that profile ids are.           *)
(***************************************************************************)
HasKey(bals, id) == \E i \in 1..Len(bals) : bals[i].friendId = id

\* bals[id] || 0
GetOrZero(bals, id) ==
    IF HasKey(bals, id)
    THEN OrZero(bals[CHOOSE i \in 1..Len(bals) : bals[i].friendId = id].amount)
    ELSE Zero

\* bals[id] = v
SetKey(bals, id, v) ==
    IF HasKey(bals, id)
    THEN [i \in 1..Len(bals) |->
            IF bals[i].friendId = id THEN [friendId |-> id, amount |-> v] ELSE bals[i]]
    ELSE Append(bals, [friendId |-> id, amount |-> v])

\* Initialize left out: an entry exists only once an expense touches it
Initialize_Nothing(frs, i, bals) == bals

\* friends.forEach(f => { if (!f.isMe) bals[f.id] = 0 })
RECURSIVE Initialize(_, _, _)
Initialize(frs, i, bals) ==
    IF i > Len(frs) THEN bals
    ELSE Initialize(frs, i + 1,
             IF ~frs[i].isMe THEN SetKey(bals, frs[i].id, Zero) ELSE bals)

costPerPerson(exp) == NumDiv(exp.amount, Num(Len(exp.splitBetween)))

\* debtChunk that takes every payer to have paid the whole amount
debtChunk_NoWeight(exp, cpp, paidAmount) == cpp

\* the debt a consumer of exp owes to the payer of paidAmount
debtChunk(exp, cpp, paidAmount) ==
    LET weight == NumDiv(paidAmount, exp.amount)
    IN  NumMul(cpp, weight)

\* Accumulate whose second case adds the chunk instead of subtracting it
Accumulate_Case2Adds(bals, uid, exp, cpp, consumerId, payer) ==
    LET chunk == NumMul(cpp, NumDiv(payer.amt, exp.amount))
        case1 == IF payer.id = uid /\ consumerId # uid
                 THEN SetKey(bals, consumerId,
                             NumAdd(GetOrZero(bals, consumerId), chunk))
                 ELSE bals
    IN  IF payer.id # uid /\ consumerId = uid
        THEN SetKey(case1, payer.id, NumAdd(GetOrZero(case1, payer.id), chunk))
        ELSE case1

\* Accumulate whose first case does not test that the consumer is another
\* person than the acting user
Accumulate_SelfOwes(bals, uid, exp, cpp, consumerId, payer) ==
    LET chunk == NumMul(cpp, NumDiv(payer.amt, exp.amount))
        case1 == IF payer.id = uid
                 THEN SetKey(bals, consumerId,
                             NumAdd(GetOrZero(bals, consumerId), chunk))
                 ELSE bals
    IN  IF payer.id # uid /\ consumerId = uid
        THEN SetKey(case1, payer.id, NumSub(GetOrZero(case1, payer.id), chunk))
        ELSE case1

\* Accumulate whose first case assigns the chunk instead of adding it
Accumulate_Overwrites(bals, uid, exp, cpp, consumerId, payer) ==
    LET chunk == NumMul(cpp, NumDiv(payer.amt, exp.amount))
        case1 == IF payer.id = uid /\ consumerId # uid
                 THEN SetKey(bals, consumerId, chunk)
                 ELSE bals
    IN  IF payer.id # uid /\ consumerId = uid
        THEN SetKey(case1, payer.id, NumSub(GetOrZero(case1, payer.id), chunk))
        ELSE case1

\* Accumulate without its second case: what the acting user owes is not
\* counted
Accumulate_NoCase2(bals, uid, exp, cpp, consumerId, payer) ==
    LET chunk == NumMul(cpp, NumDiv(payer.amt, exp.amount))
    IN  IF payer.id = uid /\ consumerId # uid
        THEN SetKey(bals, consumerId, NumAdd(GetOrZero(bals, consumerId), chunk))
        ELSE bals

\* the body of payers.forEach for one payer and one consumer
Accumulate(bals, uid, exp, cpp, consumerId, payer) ==
    LET chunk == debtChunk(exp, cpp, payer.amt)
        case1 == IF payer.id = uid /\ consumerId # uid
                 THEN SetKey(bals, consumerId,
                             NumAdd(GetOrZero(bals, consumerId), chunk))
                 ELSE bals
    IN  IF payer.id # uid /\ consumerId = uid
        THEN SetKey(case1, payer.id, NumSub(GetOrZero(case1, payer.id), chunk))
        ELSE case1

RECURSIVE PayersLoop(_, _, _, _, _, _)
PayersLoop(bals, uid, exp, cpp, consumerId, j) ==
    IF j > Len(exp.paidBy) THEN bals
    ELSE PayersLoop(Accumulate(bals, uid, exp, cpp, consumerId, exp.paidBy[j]),
                    uid, exp, cpp, consumerId, j + 1)

RECURSIVE ConsumersLoop(_, _, _, _, _)
ConsumersLoop(bals, uid, exp, cpp, i) ==
    IF i > Len(exp.splitBetween) THEN bals
    ELSE ConsumersLoop(PayersLoop(bals, uid, exp, cpp, exp.splitBetween[i], 1),
                       uid, exp, cpp, i + 1)

\* AddExpense that takes an expense split between nobody to be consumed by
\* the acting user
AddExpense_EmptySplitIsMine(bals, uid, exp) ==
    ConsumersLoop(bals, uid,
                  IF exp.splitBetween = << >> THEN [exp EXCEPT !.splitBetween = <<uid>>]
                  ELSE exp,
                  costPerPerson(exp), 1)

\* the body of expenses.forEach
AddExpense(bals, uid, exp) == ConsumersLoop(bals, uid, exp, costPerPerson(exp), 1)

RECURSIVE ExpensesLoop(_, _, _, _)
ExpensesLoop(bals, uid, exps, n) ==
    IF n > Len(exps) THEN bals
    ELSE ExpensesLoop(AddExpense(bals, uid, exps[n]), uid, exps, n + 1)

\* the value of the useMemo: the entries of bals as Balance records
Balances(exps, profile, frs) ==
    IF profile = NullProfile THEN << >>
    ELSE ExpensesLoop(Initialize(frs, 1, << >>), profile.id, exps, 1)

(***************************************************************************)
(* The texts of the number inputs.  parseFloat and Number.toString are     *)
(* the decimal conversions, tabulated for the texts that occur.            *)
(***************************************************************************)
Texts ==
    { <<"", NaN>>, <<"-30", Num(-30)>>, <<"-5", Num(-5)>>, <<"70", Num(70)>>,
      <<"100", Num(100)>>, <<"200", Num(200)>> }

\* parseFloat(s)
ParseFloat(s) == (CHOOSE p \in Texts : p[1] = s)[2]

\* x.toString() of a finite x
NumberToString(x) == (CHOOSE p \in Texts : p[2] = x)[1]

\* s.trim()
Trim(s) == IF s = "  " THEN "" ELSE s

\* !x of a number: true of 0 and of NaN
Falsy(x) == IsNaN(x) \/ x = Zero

\* the texts a user types
AmountInputs == {"-5", "100"}
PayerInputs == {"-30", "100"}
DescriptionInputs == {"Lunch"}
MagicInputs == {"  ", "taxi 300"}

(***************************************************************************)
(* fetchUserData.  A query that answers with an error carries no data:     *)
(* profile is then NullProfile, reqs and exps are empty.                   *)
(***************************************************************************)
FriendIds(frs) == [i \in 1..Len(frs) |-> frs[i].id]

\* the effect of AddExpenseModal on [isOpen, friends, currentUser.id], which
\* runs with every setFriends of App: while the modal is open it resets the
\* form
FormSeesFriends(frs, currentUser) ==
    IF isAddModalOpen
    THEN /\ amount' = ""
         /\ description' = ""
         /\ singlePayerId' = currentUser.id
         /\ isMultiPayer' = FALSE
         /\ multiPayers' = << >>
         /\ splitBetween' = FriendIds(frs)
         /\ isMagicMode' = FALSE
         /\ magicText' = ""
         /\ UNCHANGED <<isAddModalOpen, isThinking>>
    ELSE UNCHANGED formVars

\* the answer of the profiles query
QueryProfile == IF dbProfile THEN [id |-> Uid] ELSE NullProfile

\* what fetchUserData sets once its three queries have answered
SetFetched(profile, reqs, exps) ==
    LET uid       == Uid
        newProf   == IF profile # NullProfile THEN profile ELSE userProfile
        confirmed == Confirmed(reqs, uid, 1,
                         IF profile # NullProfile
                         THEN <<[id |-> profile.id, isMe |-> TRUE]>> ELSE << >>)
        formatted == formattedExpenses(exps)
    IN  /\ userProfile' = newProf
        /\ friends' = confirmed
        /\ requests' = Pending(reqs, uid)
        /\ expenses' = formatted
        /\ balances' = Balances(formatted, newProf, confirmed)

\* what fetchUserData has set when the requests query throws
SetUntilRequests(profile) ==
    LET newProf == IF profile # NullProfile THEN profile ELSE userProfile
    IN  /\ userProfile' = newProf
        /\ balances' = Balances(expenses, newProf, friends)
        /\ UNCHANGED <<friends, requests, expenses>>

\* what fetchUserData has set when the expenses query throws
SetUntilExpenses(profile, reqs) ==
    LET uid       == Uid
        newProf   == IF profile # NullProfile THEN profile ELSE userProfile
        confirmed == Confirmed(reqs, uid, 1,
                         IF profile # NullProfile
                         THEN <<[id |-> profile.id, isMe |-> TRUE]>> ELSE << >>)
    IN  /\ userProfile' = newProf
        /\ friends' = confirmed
        /\ requests' = Pending(reqs, uid)
        /\ balances' = Balances(expenses, newProf, confirmed)
        /\ UNCHANGED expenses

\* how the three queries of a fetch that fails may end: at least one does
\* not answer with data, and none is made after one that throws
FetchFailures ==
    {o \in [{"profile", "requests", "expenses"} -> {"data", "error", "throw"}] :
        /\ \E q \in DOMAIN o : o[q] # "data"
        /\ o["profile"] = "throw" => o["requests"] = "data"
        /\ (o["profile"] = "throw" \/ o["requests"] = "throw") => o["expenses"] = "data"}

(***************************************************************************)
(* The state machine: the backend holds some profile, requests and         *)
(* expenses; App starts empty, fetches, and is signed out.                 *)
(***************************************************************************)
Init ==
    /\ dbProfile \in BOOLEAN
    /\ dbRequests \in RequestLists
    /\ dbExpenses \in RowLists
    /\ userProfile = NullProfile
    /\ friends = << >>
    /\ requests = << >>
    /\ expenses = << >>
    /\ balances = Balances(<< >>, NullProfile, << >>)
    /\ isAddModalOpen = FALSE
    /\ amount = ""
    /\ description = ""
    /\ isMultiPayer = FALSE
    /\ singlePayerId = ""
    /\ multiPayers = << >>
    /\ splitBetween = << >>
    /\ isMagicMode = FALSE
    /\ magicText = ""
    /\ isThinking = FALSE
    /\ lastCall = NoCall
    /\ Constructed

\* fetchUserData(uid) with every query answered
FetchUserData ==
    /\ SetFetched(QueryProfile, dbRequests, dbExpenses)
    /\ FormSeesFriends(friends', userProfile')
    /\ lastCall' = Call("fetch", "ok", FALSE, NoDraft, "")
    /\ Finally
    /\ UNCHANGED dbVars

\* fetchUserData(uid) with a query that answers with an error or throws
FetchUserDataFailed ==
    \E o \in FetchFailures :
       LET profile == IF o["profile"] = "data" THEN QueryProfile ELSE NullProfile
           reqs    == IF o["requests"] = "data" THEN dbRequests ELSE << >>
           exps    == IF o["expenses"] = "data" THEN dbExpenses ELSE << >>
           threw   == \E q \in DOMAIN o : o[q] = "throw"
       IN  /\ IF o["profile"] = "throw"
              THEN UNCHANGED <<appVars, formVars>>
              ELSE IF o["requests"] = "throw"
              THEN SetUntilRequests(profile) /\ UNCHANGED formVars
              ELSE IF o["expenses"] = "throw"
              THEN /\ SetUntilExpenses(profile, reqs)
                   /\ FormSeesFriends(friends', userProfile')
              ELSE /\ SetFetched(profile, reqs, exps)
                   /\ FormSeesFriends(friends', userProfile')
           /\ lastCall' = Call("fetch", IF threw THEN "throw" ELSE "error",
                               FALSE, NoDraft, "")
           /\ Finally
           /\ UNCHANGED dbVars

\* onAuthStateChange with no session
SignedOut ==
    /\ friends' = << >>
    /\ expenses' = << >>
    /\ userProfile' = NullProfile
    /\ balances' = Balances(<< >>, NullProfile, << >>)
    /\ lastCall' = NoCall
    /\ session' = NoSession
    /\ loading' = FALSE
    /\ UNCHANGED <<dbProfile, dbRequests, dbExpenses, requests, calls>>
    /\ UNCHANGED formVars

Next == FetchUserData \/ SignedOut

Spec == Init /\ [][Next]_vars

(***************************************************************************)
(* Fetches that fail and deletions: the backend holds the profile, a       *)
(* pending request and rows of every kind of paid_by.                      *)
(***************************************************************************)
FetchInit ==
    /\ dbProfile = TRUE
    /\ dbRequests = <<Req("r1", "A", "B", "accepted"), Req("r3", "C", "A", "accepted"),
                      Req("r4", "D", "A", "pending")>>
    /\ dbExpenses \in StoredLists
    /\ userProfile = NullProfile
    /\ friends = << >>
    /\ requests = << >>
    /\ expenses = << >>
    /\ balances = Balances(<< >>, NullProfile, << >>)
    /\ isAddModalOpen = FALSE
    /\ amount = ""
    /\ description = ""
    /\ isMultiPayer = FALSE
    /\ singlePayerId = ""
    /\ multiPayers = << >>
    /\ splitBetween = << >>
    /\ isMagicMode = FALSE
    /\ magicText = ""
    /\ isThinking = FALSE
    /\ lastCall = NoCall
    /\ Constructed

\* handleDeleteExpense(id) of an expense of the list, and how the backend
\* takes the delete; the row goes only when the backend answers without error
HandleDeleteExpense(id, result) ==
    /\ userProfile # NullProfile
    /\ HasId(expenses, id)
    /\ IF result = "throw"
       THEN UNCHANGED <<dbVars, appVars, formVars, asyncVars>>
       ELSE LET rows == IF result = "ok"
                        THEN SelectSeq(dbExpenses, LAMBDA e : e.id # id)
                        ELSE dbExpenses
            IN  /\ dbExpenses' = rows
                /\ Finally
                /\ UNCHANGED <<dbProfile, dbRequests>>
                /\ SetFetched(QueryProfile, dbRequests, rows)
                /\ FormSeesFriends(friends', userProfile')
    /\ lastCall' = Call("delete", result, FALSE, NoDraft, id)

DeleteExpense ==
    \E i \in 1..Len(expenses), result \in {"ok", "error", "throw"} :
       HandleDeleteExpense(expenses[i].id, result)

FetchNext == FetchUserData \/ FetchUserDataFailed \/ DeleteExpense

FetchSpec == FetchInit /\ [][FetchNext]_vars

(***************************************************************************)
(* handleAddExpense: the encoding of paid_by and the insert.               *)
(***************************************************************************)
Hundredth == NumDiv(Num(1), Num(100))     \* the literal 0.01

\* EncodePaidBy that never takes the legacy form
EncodePaidBy_AlwaysMapping(d) == JObject(d.paidBy)

\* EncodePaidBy that takes the legacy form for every single payer, whatever
\* the payer paid
EncodePaidBy_SingleIsScalar(d) ==
    IF Len(d.paidBy) = 1 THEN JString(d.paidBy[1].id) ELSE JObject(d.paidBy)

\* paidByPayload
EncodePaidBy(d) ==
    IF /\ Len(d.paidBy) = 1
       /\ NumLess(NumAbs(NumSub(d.paidBy[1].amt, d.amount)), Hundredth)
    THEN JString(d.paidBy[1].id)
    ELSE JObject(d.paidBy)

\* the id the backend gives to a new row
NewId(rows) == CHOOSE i \in {"n1", "n2", "n3", "n4"} : ~HasId(rows, i)

\* payload, as the row the expenses table stores
Payload(d, rows) ==
    [id |-> NewId(rows), amount |-> d.amount, paid_by |-> EncodePaidBy(d),
     split_between |-> JArray(d.splitBetween)]

\* handleAddExpense(d) and how the backend takes the insert: the newest row
\* is the first by date, and the table holds MaxRows rows at most
AddExpenseCall(d, result) ==
    /\ userProfile # NullProfile
    /\ IF result = "ok"
       THEN /\ Len(dbExpenses) < MaxRows
            /\ dbExpenses' = <<Payload(d, dbExpenses)>> \o dbExpenses
            /\ UNCHANGED <<dbProfile, dbRequests>>
            /\ SetFetched(QueryProfile, dbRequests, dbExpenses')
            /\ lastCall' = Call("add", "ok", FALSE, d, "")
            /\ Finally
       ELSE /\ UNCHANGED <<dbVars, appVars, asyncVars>>
            /\ lastCall' = Call("add", result, TRUE, d, "")

\* handleAddExpense(d) while the modal is closed
HandleAddExpense(d, result) == AddExpenseCall(d, result) /\ UNCHANGED formVars

\* drafts of every kind of paidBy, on three amounts
HalfHundredth == NumDiv(Num(1), Num(200))
PayerChoices(a) ==
    { << >>,
      <<[id |-> "A", amt |-> a]>>,
      <<[id |-> "B", amt |-> a]>>,
      <<[id |-> "A", amt |-> NumAdd(a, Hundredth)]>>,
      <<[id |-> "A", amt |-> NumAdd(a, HalfHundredth)]>>,
      <<[id |-> "A", amt |-> NumMul(a, Num(2))]>>,
      <<[id |-> "A", amt |-> NumDiv(a, Num(2))], [id |-> "B", amt |-> NumDiv(a, Num(2))]>>,
      <<[id |-> "A", amt |-> a], [id |-> "B", amt |-> Zero]>> }
Drafts ==
    UNION {{[amount |-> a, paidBy |-> p, splitBetween |-> <<"A", "B">>] :
               p \in PayerChoices(a)} : a \in {Hundredth, Num(100), Num(300)}}

EncoderInit ==
    /\ dbProfile = TRUE
    /\ dbRequests = <<Req("r1", "A", "B", "accepted"), Req("r2", "B", "A", "accepted")>>
    /\ dbExpenses = SeedRows
    /\ userProfile = NullProfile
    /\ friends = << >>
    /\ requests = << >>
    /\ expenses = << >>
    /\ balances = Balances(<< >>, NullProfile, << >>)
    /\ isAddModalOpen = FALSE
    /\ amount = ""
    /\ description = ""
    /\ isMultiPayer = FALSE
    /\ singlePayerId = ""
    /\ multiPayers = << >>
    /\ splitBetween = << >>
    /\ isMagicMode = FALSE
    /\ magicText = ""
    /\ isThinking = FALSE
    /\ lastCall = NoCall
    /\ Constructed

AddDraft ==
    \E d \in Drafts, result \in {"ok", "error", "throw"} : HandleAddExpense(d, result)

EncoderNext == FetchUserData \/ AddDraft

EncoderSpec == EncoderInit /\ [][EncoderNext]_vars

(***************************************************************************)
(* AddExpenseModal.  multiPayers is the object of the code as its entries  *)
(* [id, value] in insertion order.                                         *)
(***************************************************************************)
SetPayer(payers, id, v) ==
    IF \E i \in 1..Len(payers) : payers[i].id = id
    THEN [i \in 1..Len(payers) |->
            IF payers[i].id = id THEN [id |-> id, value |-> v] ELSE payers[i]]
    ELSE Append(payers, [id |-> id, value |-> v])

\* Object.values(multiPayers).reduce((acc, val) => acc + (parseFloat(val) || 0), 0)
Total(payers) ==
    LET sum[i \in 0..Len(payers)] ==
            IF i = 0 THEN Zero
            ELSE NumAdd(sum[i - 1], OrZero(ParseFloat(payers[i].value)))
    IN  sum[Len(payers)]

\* the effect on [multiPayers, isMultiPayer] in multi-payer mode
SyncedAmount(payers) ==
    IF NumLess(Zero, Total(payers)) THEN NumberToString(Total(payers)) ELSE ""

\* paidByPayload of handleSubmit in multi-payer mode
PositivePayers(payers) ==
    LET kept == SelectSeq(payers, LAMBDA p : NumLess(Zero, ParseFloat(p.value)))
    IN  [i \in 1..Len(kept) |-> [id |-> kept[i].id, amt |-> ParseFloat(kept[i].value)]]

\* the expense handleSubmit hands to onAdd
FormDraft ==
    LET finalAmount == ParseFloat(amount)
    IN  [amount |-> finalAmount,
         paidBy |-> IF isMultiPayer THEN PositivePayers(multiPayers)
                    ELSE <<[id |-> singlePayerId, amt |-> finalAmount]>>,
         splitBetween |-> splitBetween]

\* what the extraction service may answer: ok is false when the call or
\* JSON.parse throws; an absent description is "", an absent totalAmount 0,
\* an absent amount of a payer Undefined
Undefined == [k |-> "undefined", s |-> 0, m |-> << >>, e |-> 0]
Answer(ok, desc, total, payers, involved) ==
    [ok |-> ok, description |-> desc, totalAmount |-> total, payers |-> payers,
     involvedFriendIds |-> involved]
Payer(id, amt) == [friendId |-> id, amount |-> amt]
MagicResults ==
    { Answer(FALSE, "", Zero, << >>, << >>),
      Answer(TRUE, "", Zero, << >>, << >>),
      Answer(TRUE, "", Zero, <<Payer("Z", Num(100))>>, <<"Z">>),
      Answer(TRUE, "Lunch", Num(200), <<Payer("A", Num(100)), Payer("B", Num(100))>>,
             <<"A", "B">>),
      Answer(TRUE, "Lunch", Num(100), <<Payer("B", Num(100))>>, <<"B", "B">>),
      Answer(TRUE, "Lunch", Num(100), <<Payer("A", Undefined), Payer("B", Num(100))>>,
             <<"A", "B">>) }

\* The expenses table is full: the backend rejects the inserts of the form,
\* and EncoderSpec has the inserts that are accepted.
FormInit ==
    /\ dbProfile = TRUE
    /\ dbRequests = <<Req("r1", "A", "B", "accepted"), Req("r2", "B", "A", "accepted")>>
    /\ dbExpenses = FullRows
    /\ userProfile = NullProfile
    /\ friends = << >>
    /\ requests = << >>
    /\ expenses = << >>
    /\ balances = Balances(<< >>, NullProfile, << >>)
    /\ isAddModalOpen = FALSE
    /\ amount = ""
    /\ description = ""
    /\ isMultiPayer = FALSE
    /\ singlePayerId = ""
    /\ multiPayers = << >>
    /\ splitBetween = << >>
    /\ isMagicMode = FALSE
    /\ magicText = ""
    /\ isThinking = FALSE
    /\ lastCall = NoCall
    /\ Constructed

\* setIsAddModalOpen(true), and the effect of the modal on isOpen
OpenModal ==
    /\ userProfile # NullProfile
    /\ ~isAddModalOpen
    /\ isAddModalOpen' = TRUE
    /\ amount' = ""
    /\ description' = ""
    /\ singlePayerId' = userProfile.id
    /\ isMultiPayer' = FALSE
    /\ multiPayers' = << >>
    /\ splitBetween' = FriendIds(friends)
    /\ isMagicMode' = FALSE
    /\ magicText' = ""
    /\ lastCall' = NoCall
    /\ UNCHANGED <<isThinking, dbVars, appVars, asyncVars>>

\* onClose
CloseModal ==
    /\ isAddModalOpen
    /\ isAddModalOpen' = FALSE
    /\ UNCHANGED <<fieldVars, isMagicMode, magicText, isThinking, lastCall, dbVars, appVars,
                   asyncVars>>

\* the manual form is on the screen
FormShown == isAddModalOpen /\ ~isMagicMode

\* onChange of the amount input
EditAmount ==
    /\ FormShown
    /\ ~isMultiPayer
    /\ \E s \in AmountInputs : amount' = s
    /\ UNCHANGED <<isAddModalOpen, description, isMultiPayer, singlePayerId, multiPayers,
                   splitBetween, isMagicMode, magicText, isThinking, lastCall,
                   dbVars, appVars,
                   asyncVars>>

\* onChange of the description input
EditDescription ==
    /\ FormShown
    /\ \E s \in DescriptionInputs : description' = s
    /\ UNCHANGED <<isAddModalOpen, amount, isMultiPayer, singlePayerId, multiPayers,
                   splitBetween, isMagicMode, magicText, isThinking, lastCall,
                   dbVars, appVars,
                   asyncVars>>

\* setIsMultiPayer(b), and the effect on [multiPayers, isMultiPayer]
SetIsMultiPayer ==
    /\ FormShown
    /\ \E b \in BOOLEAN :
          /\ isMultiPayer' = b
          /\ amount' = IF b /\ ~isMultiPayer THEN SyncedAmount(multiPayers) ELSE amount
    /\ UNCHANGED <<isAddModalOpen, description, singlePayerId, multiPayers,
                   splitBetween, isMagicMode, magicText, isThinking, lastCall,
                   dbVars, appVars,
                   asyncVars>>

\* setSinglePayerId(friend.id)
SetSinglePayerId ==
    /\ FormShown
    /\ ~isMultiPayer
    /\ \E i \in 1..Len(friends) : singlePayerId' = friends[i].id
    /\ UNCHANGED <<isAddModalOpen, amount, description, isMultiPayer, multiPayers,
                   splitBetween, isMagicMode, magicText, isThinking, lastCall,
                   dbVars, appVars,
                   asyncVars>>

\* handleMultiPayerChange(friend.id, value), and the effect on multiPayers
HandleMultiPayerChange ==
    /\ FormShown
    /\ isMultiPayer
    /\ \E i \in 1..Len(friends), v \in PayerInputs :
          /\ multiPayers' = SetPayer(multiPayers, friends[i].id, v)
          /\ amount' = SyncedAmount(multiPayers')
    /\ UNCHANGED <<isAddModalOpen, description, isMultiPayer, singlePayerId,
                   splitBetween, isMagicMode, magicText, isThinking, lastCall,
                   dbVars, appVars,
                   asyncVars>>

\* toggleSplit(friend.id)
ToggleSplit ==
    /\ FormShown
    /\ \E i \in 1..Len(friends) :
          LET id == friends[i].id
          IN  splitBetween' =
                 IF \E k \in 1..Len(splitBetween) : splitBetween[k] = id
                 THEN SelectSeq(splitBetween, LAMBDA fid : fid # id)
                 ELSE Append(splitBetween, id)
    /\ UNCHANGED <<isAddModalOpen, amount, description, isMultiPayer, singlePayerId,
                   multiPayers, isMagicMode, magicText, isThinking, lastCall,
                   dbVars, appVars,
                   asyncVars>>

\* setIsMagicMode(b): the magic button of the form and the X of the magic view
SetIsMagicMode ==
    /\ isAddModalOpen
    /\ isMagicMode' = ~isMagicMode
    /\ UNCHANGED <<isAddModalOpen, fieldVars, magicText, isThinking, lastCall,
                   dbVars, appVars,
                   asyncVars>>

\* onChange of the textarea
EditMagicText ==
    /\ isAddModalOpen
    /\ isMagicMode
    /\ \E s \in MagicInputs : magicText' = s
    /\ UNCHANGED <<isAddModalOpen, fieldVars, isMagicMode, isThinking, lastCall,
                   dbVars, appVars,
                   asyncVars>>

\* handleMagicFill up to its await: one call is in flight at a time
MagicFillStart ==
    /\ isAddModalOpen
    /\ isMagicMode
    /\ Trim(magicText) # ""
    /\ ~isThinking
    /\ isThinking' = TRUE
    /\ UNCHANGED <<isAddModalOpen, fieldVars, isMagicMode, magicText, lastCall,
                   dbVars, appVars,
                   asyncVars>>

\* handleMagicFill from the answer r of the service on.  The state that was
\* set before a throw stays set; the effect on [multiPayers, isMultiPayer]
\* runs when setMultiPayers was called or isMultiPayer changed.
HandleMagicFill(r) ==
    /\ isThinking
    /\ userProfile # NullProfile
    /\ LET valid    == SelectSeq(r.payers, LAMBDA p : HasId(friends, p.friendId))
           validIds == SelectSeq(r.involvedFriendIds, LAMBDA id : HasId(friends, id))
           multi    == Len(valid) > 1
           throws   == multi /\ \E i \in 1..Len(valid) : valid[i].amount = Undefined
           newMultiMap[i \in 0..Len(valid)] ==
               IF i = 0 THEN << >>
               ELSE SetPayer(newMultiMap[i - 1], valid[i].friendId,
                             NumberToString(valid[i].amount))
           payers   == IF Len(valid) = 1 THEN << >>
                       ELSE IF multi /\ ~throws THEN newMultiMap[Len(valid)]
                       ELSE multiPayers
           wasSet   == Len(valid) = 1 \/ (multi /\ ~throws)
           total    == IF Falsy(r.totalAmount) THEN amount
                       ELSE NumberToString(r.totalAmount)
       IN  IF ~r.ok
           THEN /\ lastCall' = Call("magic", "throw", TRUE, NoDraft, "")
                /\ UNCHANGED <<fieldVars, isMagicMode>>
           ELSE /\ description' = IF r.description # "" THEN r.description ELSE description
                /\ isMultiPayer' = multi
                /\ singlePayerId' = IF Len(valid) = 1 THEN valid[1].friendId
                                    ELSE IF multi THEN singlePayerId
                                    ELSE userProfile.id
                /\ multiPayers' = payers
                /\ amount' = IF multi /\ (wasSet \/ ~isMultiPayer)
                             THEN SyncedAmount(payers) ELSE total
                /\ splitBetween' = IF throws THEN splitBetween
                                   ELSE IF validIds # << >> THEN validIds
                                   ELSE FriendIds(friends)
                /\ isMagicMode' = IF throws THEN isMagicMode ELSE FALSE
                /\ lastCall' = Call("magic", IF throws THEN "throw" ELSE "ok", throws,
                                    NoDraft, "")
    /\ isThinking' = FALSE
    /\ UNCHANGED <<isAddModalOpen, magicText, dbVars, appVars, asyncVars>>

MagicFillEnd == \E r \in MagicResults : HandleMagicFill(r)

\* handleSubmit: onAdd(FormDraft), then onClose()
HandleSubmit ==
    /\ FormShown
    /\ ~Falsy(ParseFloat(amount))
    /\ description # ""
    /\ Len(splitBetween) # 0
    /\ \E result \in {"ok", "error", "throw"} : AddExpenseCall(FormDraft, result)
    /\ isAddModalOpen' = FALSE
    /\ UNCHANGED <<fieldVars, isMagicMode, magicText, isThinking>>

\* the form filled in by hand
FormNext ==
    \/ FetchUserData
    \/ OpenModal
    \/ CloseModal
    \/ EditAmount
    \/ EditDescription
    \/ SetIsMultiPayer
    \/ SetSinglePayerId
    \/ HandleMultiPayerChange
    \/ ToggleSplit
    \/ HandleSubmit

FormSpec == FormInit /\ [][FormNext]_vars

\* the form filled in by the extraction service
MagicNext ==
    \/ FetchUserData
    \/ OpenModal
    \/ CloseModal
    \/ EditDescription
    \/ ToggleSplit
    \/ SetIsMagicMode
    \/ EditMagicText
    \/ MagicFillStart
    \/ MagicFillEnd
    \/ HandleSubmit

MagicSpec == FormInit /\ [][MagicNext]_vars

(***************************************************************************)
(* Friendships: handleAcceptRequest and handleRemoveFriend on a backend    *)
(* that holds some of the requests below.                                  *)
(***************************************************************************)
FriendRequests ==
    <<Req("r1", "A", "B", "accepted"), Req("r2", "B", "A", "accepted"),
      Req("r3", "C", "A", "accepted"), Req("r4", "D", "A", "pending"),
      Req("r5", "A", "C", "pending")>>

\* the rows of the list that are in picked, in the order of the list
Picked(list, picked) ==
    LET upTo[i \in 0..Len(list)] ==
            IF i = 0 THEN << >>
            ELSE IF i \in picked THEN Append(upTo[i - 1], list[i])
            ELSE upTo[i - 1]
    IN  upTo[Len(list)]

\* the request is between u and f, in either direction
Between(req, u, f) ==
    \/ req.sender_id = u /\ req.receiver_id = f
    \/ req.sender_id = f /\ req.receiver_id = u

FriendsInit ==
    /\ dbProfile = TRUE
    /\ \E picked \in SUBSET (1..Len(FriendRequests)) :
          dbRequests = Picked(FriendRequests, picked)
    /\ dbExpenses = SeedRows
    /\ userProfile = NullProfile
    /\ friends = << >>
    /\ requests = << >>
    /\ expenses = << >>
    /\ balances = Balances(<< >>, NullProfile, << >>)
    /\ isAddModalOpen = FALSE
    /\ amount = ""
    /\ description = ""
    /\ isMultiPayer = FALSE
    /\ singlePayerId = ""
    /\ multiPayers = << >>
    /\ splitBetween = << >>
    /\ isMagicMode = FALSE
    /\ magicText = ""
    /\ isThinking = FALSE
    /\ lastCall = NoCall
    /\ Constructed

\* handleAcceptRequest(id) of a request of the list, and how the backend
\* takes the update: the result is not looked at
HandleAcceptRequest(id, result) ==
    /\ HasId(requests, id)
    /\ IF result = "throw"
       THEN UNCHANGED <<dbVars, appVars, formVars, asyncVars>>
       ELSE LET reqs == IF result = "ok"
                        THEN [i \in 1..Len(dbRequests) |->
                                IF dbRequests[i].id = id
                                THEN [dbRequests[i] EXCEPT !.status = "accepted"]
                                ELSE dbRequests[i]]
                        ELSE dbRequests
            IN  /\ dbRequests' = reqs
                /\ UNCHANGED <<dbProfile, dbExpenses>>
                /\ SetFetched(QueryProfile, reqs, dbExpenses)
                /\ FormSeesFriends(friends', userProfile')
                /\ Finally
    /\ lastCall' = Call("accept", result, FALSE, NoDraft, id)

AcceptRequest ==
    \E i \in 1..Len(requests), result \in {"ok", "error", "throw"} :
       HandleAcceptRequest(requests[i].id, result)

\* handleRemoveFriend that deletes only the requests the user sent
HandleRemoveFriend_SentOnly(friendId, result) ==
    /\ userProfile # NullProfile
    /\ IF result = "ok"
       THEN LET reqs == SelectSeq(dbRequests,
                            LAMBDA req : ~(/\ req.sender_id = userProfile.id
                                           /\ req.receiver_id = friendId))
            IN  /\ dbRequests' = reqs
                /\ UNCHANGED <<dbProfile, dbExpenses>>
                /\ SetFetched(QueryProfile, reqs, dbExpenses)
                /\ FormSeesFriends(friends', userProfile')
                /\ Finally
       ELSE UNCHANGED <<dbVars, appVars, formVars, asyncVars>>
    /\ lastCall' = Call("remove", result, FALSE, NoDraft, friendId)

\* handleRemoveFriend(friendId), and how the backend takes the delete: an
\* error or a throw is logged and nothing is fetched
HandleRemoveFriend(friendId, result) ==
    /\ userProfile # NullProfile
    /\ IF result = "ok"
       THEN LET reqs == SelectSeq(dbRequests,
                            LAMBDA req : ~Between(req, userProfile.id, friendId))
            IN  /\ dbRequests' = reqs
                /\ UNCHANGED <<dbProfile, dbExpenses>>
                /\ SetFetched(QueryProfile, reqs, dbExpenses)
                /\ FormSeesFriends(friends', userProfile')
                /\ Finally
       ELSE UNCHANGED <<dbVars, appVars, formVars, asyncVars>>
    /\ lastCall' = Call("remove", result, FALSE, NoDraft, friendId)

\* the remove button of a friend of the list that is not the user
RemoveFriend ==
    \E i \in 1..Len(friends), result \in {"ok", "error", "throw"} :
       /\ ~friends[i].isMe
       /\ HandleRemoveFriend(friends[i].id, result)

FriendsNext == FetchUserData \/ AcceptRequest \/ RemoveFriend

FriendsSpec == FriendsInit /\ [][FriendsNext]_vars

(***************************************************************************)
(* App with its promises: getSession, the auth subscription, and calls of  *)
(* fetchUserData that overlap.  A call of fetchUserData is suspended at    *)
(* one of its three awaits; the answer of the expenses query is read from  *)
(* the table when the backend serves it and is delivered later.            *)
(***************************************************************************)
MaxFetches == 2     \* calls of fetchUserData that await an answer at a time

\* a call of fetchUserData: the await it is at ("profile", "requests",
\* "expenses" before the backend served the query and "apply" after), or how
\* it ended ("done", "thrown"), and the answers it has got
Fetch(at, profile, reqs, exps) ==
    [at |-> at, profile |-> profile, reqs |-> reqs, exps |-> exps]
Ended(c) == c.at \in {"done", "thrown"}
InFlight == {i \in 1..Len(calls) : ~Ended(calls[i])}

\* getSession has not settled yet
GetSessionPending == lastCall = Call("getSession", "pending", FALSE, NoDraft, "")

\* fetchUserData(uid) up to its first await
StartFetch ==
    /\ Cardinality(InFlight) < MaxFetches
    /\ calls' = Append(SelectSeq(calls, LAMBDA c : ~Ended(c)),
                       Fetch("profile", NullProfile, << >>, << >>))

\* call i moves to c; a call that ended is kept while it is the last started
Moved(i, c) ==
    IF Ended(c) /\ i < Len(calls)
    THEN SubSeq(calls, 1, i - 1) \o SubSeq(calls, i + 1, Len(calls))
    ELSE [calls EXCEPT ![i] = c]

AsyncInit ==
    /\ dbProfile = TRUE
    /\ dbRequests = <<Req("r1", "A", "B", "accepted"), Req("r4", "D", "A", "pending")>>
    /\ dbExpenses = SeedRows
    /\ userProfile = NullProfile
    /\ friends = << >>
    /\ requests = << >>
    /\ expenses = << >>
    /\ balances = Balances(<< >>, NullProfile, << >>)
    /\ isAddModalOpen = FALSE
    /\ amount = ""
    /\ description = ""
    /\ isMultiPayer = FALSE
    /\ singlePayerId = ""
    /\ multiPayers = << >>
    /\ splitBetween = << >>
    /\ isMagicMode = FALSE
    /\ magicText = ""
    /\ isThinking = FALSE
    /\ lastCall = Call("getSession", "pending", FALSE, NoDraft, "")
    /\ Constructed

\* getSession settles: with no session, with the session of Uid, or rejected
GetSession(outcome) ==
    /\ GetSessionPending
    /\ lastCall' = Call("getSession", outcome, FALSE, NoDraft, "")
    /\ IF outcome = "throw"
       THEN loading' = FALSE /\ UNCHANGED <<session, calls>>
       ELSE IF outcome = "none"
       THEN session' = NoSession /\ loading' = FALSE /\ UNCHANGED calls
       ELSE session' = Uid /\ StartFetch /\ UNCHANGED loading
    /\ UNCHANGED <<dbVars, appVars, formVars>>

GetSessionSettles == \E outcome \in {"none", "session", "throw"} : GetSession(outcome)

\* the callback of onAuthStateChange, with the session of Uid or with none
AuthStateChange(s) ==
    /\ ~GetSessionPending
    /\ session' = s
    /\ lastCall' = Call("auth", IF s = NoSession THEN "none" ELSE "session",
                        FALSE, NoDraft, "")
    /\ IF s # NoSession
       THEN StartFetch /\ UNCHANGED <<appVars, loading>>
       ELSE /\ friends' = << >>
            /\ expenses' = << >>
            /\ userProfile' = NullProfile
            /\ balances' = Balances(<< >>, NullProfile, << >>)
            /\ loading' = FALSE
            /\ UNCHANGED <<requests, calls>>
    /\ UNCHANGED <<dbVars, formVars>>

AuthEvent == \E s \in {NoSession, Uid} : AuthStateChange(s)

\* App shows its tabs
Shown == ~loading /\ session # NoSession /\ userProfile # NullProfile

\* the effect on [activeTab, isAddModalOpen, selectedExpense], after the
\* user changed the tab
TabChanged ==
    /\ Shown
    /\ StartFetch
    /\ UNCHANGED <<dbVars, appVars, formVars, lastCall, session, loading>>

\* handleProfileUpdate(updatedProfile), the profile being the user's own
HandleProfileUpdate ==
    /\ Shown
    /\ userProfile' = [id |-> userProfile.id]
    /\ friends' = [i \in 1..Len(friends) |->
                     IF friends[i].id = userProfile'.id
                     THEN [id |-> userProfile'.id, isMe |-> friends[i].isMe]
                     ELSE friends[i]]
    /\ balances' = Balances(expenses, userProfile', friends')
    /\ FormSeesFriends(friends', userProfile')
    /\ lastCall' = Call("update", "ok", FALSE, NoDraft, "")
    /\ UNCHANGED <<dbVars, requests, expenses, asyncVars>>

\* another user deletes the newest expense of the table
ExpenseRemoved ==
    /\ dbExpenses # << >>
    /\ dbExpenses' = Tail(dbExpenses)
    /\ UNCHANGED <<dbProfile, dbRequests, appVars, formVars, lastCall, asyncVars>>

\* line 71-74 of call i: the profiles query answers
AnswerProfile(i) ==
    LET profile == QueryProfile
    IN  /\ calls[i].at = "profile"
        /\ userProfile' = IF profile # NullProfile THEN profile ELSE userProfile
        /\ balances' = Balances(expenses, userProfile', friends)
        /\ calls' = Moved(i, [calls[i] EXCEPT !.at = "requests", !.profile = profile])
        /\ UNCHANGED <<dbVars, friends, requests, expenses, formVars, lastCall,
                       session, loading>>

\* line 76-94 of call i: the friend_requests query answers
AnswerRequests(i) ==
    LET profile   == calls[i].profile
        confirmed == Confirmed(dbRequests, Uid, 1,
                         IF profile # NullProfile
                         THEN <<[id |-> profile.id, isMe |-> TRUE]>> ELSE << >>)
    IN  /\ calls[i].at = "requests"
        /\ friends' = confirmed
        /\ requests' = Pending(dbRequests, Uid)
        /\ balances' = Balances(expenses, userProfile, confirmed)
        /\ FormSeesFriends(confirmed, userProfile)
        /\ calls' = Moved(i, [calls[i] EXCEPT !.at = "expenses", !.reqs = dbRequests])
        /\ UNCHANGED <<dbVars, userProfile, expenses, lastCall, session, loading>>

\* the backend reads the expenses table for call i
ServeExpenses(i) ==
    /\ calls[i].at = "expenses"
    /\ calls' = Moved(i, [calls[i] EXCEPT !.at = "apply", !.exps = dbExpenses])
    /\ UNCHANGED <<dbVars, appVars, formVars, lastCall, session, loading>>

\* line 98-124 of call i: the answer of the expenses query arrives
ApplyExpenses(i) ==
    /\ calls[i].at = "apply"
    /\ expenses' = formattedExpenses(calls[i].exps)
    /\ balances' = Balances(expenses', userProfile, friends)
    /\ loading' = FALSE
    /\ calls' = Moved(i, [calls[i] EXCEPT !.at = "done"])
    /\ UNCHANGED <<dbVars, userProfile, friends, requests, formVars, lastCall, session>>

\* FetchThrows without the finally
FetchThrows_NoFinally(i) ==
    /\ calls[i].at \in {"profile", "requests", "expenses"}
    /\ calls' = Moved(i, [calls[i] EXCEPT !.at = "thrown"])
    /\ UNCHANGED <<dbVars, appVars, formVars, lastCall, session, loading>>

\* a query of call i rejects: the catch, then the finally
FetchThrows(i) ==
    /\ calls[i].at \in {"profile", "requests", "expenses"}
    /\ loading' = FALSE
    /\ calls' = Moved(i, [calls[i] EXCEPT !.at = "thrown"])
    /\ UNCHANGED <<dbVars, appVars, formVars, lastCall, session>>

\* the backend answers a call of fetchUserData
FetchStep ==
    \E i \in 1..Len(calls) :
       \/ AnswerProfile(i)
       \/ AnswerRequests(i)
       \/ ServeExpenses(i)
       \/ ApplyExpenses(i)
       \/ FetchThrows(i)

AsyncNext ==
    \/ GetSessionSettles
    \/ AuthEvent
    \/ TabChanged
    \/ HandleProfileUpdate
    \/ ExpenseRemoved
    \/ FetchStep

AsyncSpec == AsyncInit /\ [][AsyncNext]_vars

\* what a call of fetchUserData may become with the next answer of the
\* backend, and the steps of FetchStep as steps of calls alone
Answers(c) ==
    IF c.at = "profile"
    THEN {[c EXCEPT !.at = "requests", !.profile = QueryProfile], [c EXCEPT !.at = "thrown"]}
    ELSE IF c.at = "requests"
    THEN {[c EXCEPT !.at = "expenses", !.reqs = dbRequests], [c EXCEPT !.at = "thrown"]}
    ELSE IF c.at = "expenses"
    THEN {[c EXCEPT !.at = "apply", !.exps = dbExpenses], [c EXCEPT !.at = "thrown"]}
    ELSE {[c EXCEPT !.at = "done"]}
BackendAnswers == \E i \in InFlight : \E c \in Answers(calls[i]) : calls' = Moved(i, c)

\* every call to the backend returns or throws in the end
LiveSpec == AsyncSpec /\ WF_vars(GetSessionSettles) /\ WF_calls(BackendAnswers)

(***************************************************************************)
(* Vocabulary of the properties.                                           *)
(***************************************************************************)
Loaded == userProfile # NullProfile
EntryIds(bals) == {bals[i].friendId : i \in 1..Len(bals)}
Entries(bals) == {bals[i] : i \in 1..Len(bals)}
\* the balance of id, a missing entry counted as 0 and, as bals[id] || 0
\* does, a NaN entry too
BalanceOf(bals, id) == GetOrZero(bals, id)
NonSelfIds(frs) == {frs[i].id : i \in {j \in 1..Len(frs) : ~frs[j].isMe}}
PayerIds(exp) == {exp.paidBy[j].id : j \in 1..Len(exp.paidBy)}
Consumers(exp) == {exp.splitBetween[i] : i \in 1..Len(exp.splitBetween)}
PaidBy(exp, id) == exp.paidBy[CHOOSE j \in 1..Len(exp.paidBy) : exp.paidBy[j].id = id].amt
Positive(x) == IsFinite(x) /\ x.s > 0
Without(list, i) == SubSeq(list, 1, i - 1) \o SubSeq(list, i + 1, Len(list))
\* the balances after the first n expenses of the list in the state
After(n) == Balances(SubSeq(expenses, 1, n), userProfile, friends)
\* (amount / |splitBetween|) * (paidBy[id] / amount)
Share(exp, id) ==
    NumMul(NumDiv(exp.amount, Num(Len(exp.splitBetween))),
           NumDiv(PaidBy(exp, id), exp.amount))
Canonical(id, amt, paidBy, split) ==
    [id |-> id, amount |-> Num(amt), paidBy |-> paidBy,
     splitBetween |-> split]

\* C1: whenever the profile is loaded, the friendIds of the balances are
\* exactly the ids of the friends not marked isMe, one entry each.
C1_EntriesAreTheNonSelfFriends ==
    Loaded => /\ EntryIds(balances) = NonSelfIds(friends)
              /\ Len(balances) = Cardinality(NonSelfIds(friends))

\* C2: an expense with amount > 0 and a non-empty split that the acting user
\* u paid into raises the balance of every consumer c # u by exactly
\* (amount / |splitBetween|) * (paidBy[u] / amount); when c also paid and u
\* also consumed, the decrease of C3 applies as well, before or after.  The
\* example: 300 paid by A and split between A, B and C gives B 100 and C 100.
C2_PayerIsOwedTheShare ==
    Loaded =>
      /\ \A n \in 1..Len(expenses) :
           LET exp == expenses[n]
               u   == userProfile.id
           IN  (Positive(exp.amount) /\ exp.splitBetween # << >> /\ u \in PayerIds(exp)) =>
                 \A c \in Consumers(exp) \ {u} :
                    LET old == BalanceOf(After(n - 1), c)
                        new == BalanceOf(After(n), c)
                        x   == Share(exp, u)
                    IN  IF c \in PayerIds(exp) /\ u \in Consumers(exp)
                        THEN new \in {NumSub(NumAdd(old, x), Share(exp, c)),
                                      NumAdd(NumSub(old, Share(exp, c)), x)}
                        ELSE new = NumAdd(old, x)
      /\ (/\ expenses = <<Canonical("e1", 300, <<Paid("A", 300)>>, <<"A", "B", "C">>)>>
          /\ userProfile.id = "A"
          /\ NonSelfIds(friends) = {"B", "C"})
         => Entries(balances) = {[friendId |-> "B", amount |-> Num(100)],
                                 [friendId |-> "C", amount |-> Num(100)]}

C2_Witness ==
    /\ Loaded
    /\ Len(expenses) = 2
    /\ expenses[2].id = "e3"
    /\ expenses[1].id = "e1"
    /\ [friendId |-> "C", amount |-> Num(100)] \in Entries(balances)
    /\ Positive(BalanceOf(balances, "D"))

\* C3: an expense with amount > 0 and a non-empty split that the acting user
\* u consumes lowers the balance of every payer p # u by exactly
\* (amount / |splitBetween|) * (paidBy[p] / amount); when u also paid and p
\* also consumed, the increase of C2 applies as well, before or after.  The
\* example: 200 paid by B and split between A and B gives B -100.
C3_ConsumerOwesTheShare ==
    Loaded =>
      /\ \A n \in 1..Len(expenses) :
           LET exp == expenses[n]
               u   == userProfile.id
           IN  (Positive(exp.amount) /\ exp.splitBetween # << >> /\ u \in Consumers(exp)) =>
                 \A p \in PayerIds(exp) \ {u} :
                    LET old == BalanceOf(After(n - 1), p)
                        new == BalanceOf(After(n), p)
                        y   == Share(exp, p)
                    IN  IF u \in PayerIds(exp) /\ p \in Consumers(exp)
                        THEN new \in {NumSub(NumAdd(old, Share(exp, u)), y),
                                      NumAdd(NumSub(old, y), Share(exp, u))}
                        ELSE new = NumSub(old, y)
      /\ (/\ expenses = <<Canonical("e2", 200, <<Paid("B", 200)>>, <<"A", "B">>)>>
          /\ userProfile.id = "A"
          /\ "B" \in NonSelfIds(friends))
         => [friendId |-> "B", amount |-> Num(-100)] \in Entries(balances)

C3_Witness ==
    /\ Loaded
    /\ Len(expenses) = 2
    /\ expenses[1].id = "e2"
    /\ expenses[2].id = "e6"
    /\ [friendId |-> "B", amount |-> Num(-100)] \in Entries(balances)

\* C4: a (payer, consumer) pair of two third parties, or of one person, changes
\* no balance; an expense in which the acting user neither paid nor consumed,
\* or is the only payer and the only consumer, can be taken out of the list
\* without changing the balances.
C4_ThirdPartiesAndSelfAreSkipped ==
    Loaded =>
      \A n \in 1..Len(expenses) :
         LET exp == expenses[n]
             u   == userProfile.id
         IN  /\ \A i \in 1..Len(exp.splitBetween), j \in 1..Len(exp.paidBy) :
                   LET c == exp.splitBetween[i]
                       p == exp.paidBy[j]
                   IN  ((p.id # u /\ c # u) \/ p.id = c) =>
                          Accumulate(After(n - 1), u, exp, costPerPerson(exp), c, p)
                            = After(n - 1)
             /\ (\/ (u \notin PayerIds(exp) /\ u \notin Consumers(exp))
                 \/ (PayerIds(exp) = {u} /\ Consumers(exp) = {u}))
                => Balances(Without(expenses, n), userProfile, friends) = balances

C4_Witness ==
    /\ Loaded
    /\ Len(expenses) = 2
    /\ expenses[1].id = "e7"
    /\ PayerIds(expenses[1]) = {userProfile.id}
    /\ Consumers(expenses[1]) = {userProfile.id}
    /\ expenses[2].id = "e3"
    /\ BalanceOf(balances, "B") # Zero

\* C5: an expense of amount 0 contributes nothing, so that no balance entry
\* is ever NaN or an infinity.
C5_BalancesAreFinite ==
    /\ \A i \in 1..Len(balances) : IsFinite(balances[i].amount)
    /\ Loaded => \A n \in 1..Len(expenses) :
                    expenses[n].amount = Zero =>
                       Balances(Without(expenses, n), userProfile, friends) = balances

\* C6: an expense with an empty splitBetween changes no balance entry, and
\* its infinite (or NaN) cost per person reaches no balance: when no expense
\* that is split has amount 0, every entry is finite.
C6_EmptySplitChangesNothing ==
    Loaded =>
      /\ \A n \in 1..Len(expenses) :
            expenses[n].splitBetween = << >> =>
               /\ AddExpense(After(n - 1), userProfile.id, expenses[n]) = After(n - 1)
               /\ Balances(Without(expenses, n), userProfile, friends) = balances
      /\ (\A n \in 1..Len(expenses) :
             expenses[n].splitBetween # << >> => expenses[n].amount # Zero)
         => \A i \in 1..Len(balances) : IsFinite(balances[i].amount)

C6_Witness ==
    /\ Loaded
    /\ Len(expenses) = 2
    /\ expenses[1].id = "e5"
    /\ expenses[1].splitBetween = << >>
    /\ ~IsFinite(costPerPerson(expenses[1]))
    /\ expenses[2].id = "e1"
    /\ BalanceOf(balances, "B") = Num(100)

\* x <= y, false when either is NaN
NumLeq(x, y) == x = y \/ NumLess(x, y)

\* every order of a list
Orders(list) ==
    {[i \in 1..Len(list) |-> list[f[i]]] :
        f \in {g \in [1..Len(list) -> 1..Len(list)] :
                 \A i, j \in 1..Len(list) : i # j => g[i] # g[j]}}

RECURSIVE Flat(_)
Flat(ss) == IF ss = << >> THEN << >> ELSE Head(ss) \o Flat(Tail(ss))

\* the debt chunks that the expenses add to (+) and take from (-) the balance
\* of id, in the order of the list, of each split and of each paidBy
Terms(exps, u, id) ==
    Flat([n \in 1..Len(exps) |->
      Flat([i \in 1..Len(exps[n].splitBetween) |->
        Flat([j \in 1..Len(exps[n].paidBy) |->
          LET c == exps[n].splitBetween[i]
              p == exps[n].paidBy[j]
              x == Share(exps[n], p.id)
          IN  (IF p.id = u /\ c = id /\ c # u THEN <<x>> ELSE << >>)
              \o (IF p.id = id /\ c = u /\ p.id # u THEN <<NumNeg(x)>> ELSE << >>)])])])

RECURSIVE SumAbs(_)
SumAbs(ts) == IF ts = << >> THEN Zero ELSE NumAdd(NumAbs(Head(ts)), SumAbs(Tail(ts)))

\* 2^k
TwoTo(k) == [k |-> "num", s |-> 1, m |-> <<1>>, e |-> k]

\* what rounding can make two orders of summing ts differ by: each sum is
\* within (n - 1) * 2^-Precision * (1 + small) of the exact sum, relative to
\* the sum of the absolute values
RoundingSlack(ts) ==
    NumMul(NumMul(Num(Len(ts)), TwoTo(1 - Precision)), SumAbs(ts))

\* no sum of ts rounds: they are integers with absolute values summing to
\* less than 2^Precision
SumsExactly(ts) ==
    /\ \A i \in 1..Len(ts) : IsFinite(ts[i]) /\ ts[i].e >= 0
    /\ NumLess(SumAbs(ts), TwoTo(Precision))

Splittable(exps) ==
    \A n \in 1..Len(exps) : Positive(exps[n].amount) /\ exps[n].splitBetween # << >>

\* C7 as stated: over expenses with amount > 0 and non-empty splits, every
\* order of the expense list yields the same set of (friendId, amount) pairs.
C7_EveryOrderSamePairs ==
    (Loaded /\ Splittable(expenses)) =>
       \A l \in Orders(expenses) :
          Entries(Balances(l, userProfile, friends)) = Entries(balances)

\* C7 as amended: every order yields the same friendIds, and for each of them
\* amounts that differ by no more than the rounding of the sums; the amounts
\* are the same when no sum rounds.
C7_EveryOrderSameUpToRounding ==
    (Loaded /\ Splittable(expenses)) =>
       \A l \in Orders(expenses) :
          LET other == Balances(l, userProfile, friends)
          IN  /\ EntryIds(other) = EntryIds(balances)
              /\ Len(other) = Len(balances)
              /\ \A id \in EntryIds(balances) :
                    LET ts == Terms(expenses, userProfile.id, id)
                        d  == NumAbs(NumSub(BalanceOf(other, id), BalanceOf(balances, id)))
                    IN  /\ NumLeq(d, RoundingSlack(ts))
                        /\ SumsExactly(ts) => d = Zero

C7_Witness ==
    /\ Loaded
    /\ Len(expenses) = 2
    /\ expenses[1].id = "e1"
    /\ expenses[2].id = "e3"
    /\ BalanceOf(Balances(<<expenses[2], expenses[1]>>, userProfile, friends), "B")
         # BalanceOf(balances, "B")
    /\ BalanceOf(Balances(<<expenses[2], expenses[1]>>, userProfile, friends), "C")
         = BalanceOf(balances, "C")

InNoExpense(id) ==
    \A n \in 1..Len(expenses) : id \notin PayerIds(expenses[n]) \cup Consumers(expenses[n])

C9_LegacyPayerPaidTheAmount ==
    \A i \in 1..Len(expenses) :
       dbExpenses[i].paid_by.t = "string" =>
          /\ Len(expenses[i].paidBy) = 1
          /\ expenses[i].paidBy[1].id = dbExpenses[i].paid_by.id
          /\ expenses[i].paidBy[1].amt = dbExpenses[i].amount

C9_Witness ==
    /\ Len(expenses) = 2
    /\ dbExpenses[1] = E1
    /\ expenses[1].paidBy = <<Paid("A", 300)>>
    /\ dbExpenses[2] = E4
    /\ expenses[2].paidBy = <<Paid("A", 0)>>

\* C10: a stored row whose paid_by is a mapping is normalized to a paidBy of
\* the same keys with the same amounts, whether or not they sum to the amount
\* of the row.
C10_MappingPassesThrough ==
    \A i \in 1..Len(expenses) :
       dbExpenses[i].paid_by.t = "object" =>
          /\ Len(expenses[i].paidBy) = Len(dbExpenses[i].paid_by.map)
          /\ PayerIds(expenses[i])
               = {dbExpenses[i].paid_by.map[j].id : j \in 1..Len(dbExpenses[i].paid_by.map)}
          /\ \A j \in 1..Len(dbExpenses[i].paid_by.map) :
                PaidBy(expenses[i], dbExpenses[i].paid_by.map[j].id)
                  = dbExpenses[i].paid_by.map[j].amt

C10_Witness ==
    /\ Len(expenses) = 2
    /\ dbExpenses[1] = E3
    /\ expenses[1].paidBy = <<Paid("A", 10), Paid("B", 60)>>
    /\ NumAdd(Num(10), Num(60)) # expenses[1].amount
    /\ dbExpenses[2] = E2
    /\ expenses[2].paidBy = <<Paid("B", 200)>>

\* the stored row that a local expense was read from
StoredRow(id) == dbExpenses[CHOOSE i \in 1..Len(dbExpenses) : dbExpenses[i].id = id]
Fetched == lastCall.op = "fetch" /\ lastCall.result = "ok"

\* C11: a stored row whose paid_by is null or absent is normalized to the
\* empty paidBy, and a row whose split_between is absent to the empty
\* splitBetween.
C11_MissingPayerIsNobody ==
    \A i \in 1..Len(expenses) :
       HasId(dbExpenses, expenses[i].id) =>
          LET row == StoredRow(expenses[i].id)
          IN  /\ row.paid_by.t \in {"null", "undefined"} => expenses[i].paidBy = << >>
              /\ row.split_between.t = "null" => expenses[i].splitBetween = << >>

C11_Witness ==
    /\ Fetched
    /\ dbExpenses = <<E8, E9>>
    /\ expenses = <<Canonical("e8", 70, << >>, << >>),
                    Canonical("e9", 80, << >>, <<"A", "B">>)>>

\* C12 as stated: a stored row whose paid_by is neither a string nor a
\* mapping is normalized to the empty paidBy, and a fetch that is answered
\* stores one expense for every row.
C12_MalformedPayerIsNobody ==
    /\ \A i \in 1..Len(expenses) :
          HasId(dbExpenses, expenses[i].id) =>
             (StoredRow(expenses[i].id).paid_by.t \notin {"string", "object"}
                => expenses[i].paidBy = << >>)
    /\ Fetched => Len(expenses) = Len(dbExpenses)

\* the last call handed a draft to handleAddExpense, and the backend stored it
Submitted == lastCall.op = "add"
Inserted == lastCall.op = "add" /\ lastCall.result = "ok"
\* |a - amount| of the only payer of a draft
PayerOff(d) == NumAbs(NumSub(d.paidBy[1].amt, d.amount))

\* C13 as stated: a draft with one payer whose amount is within 0.01 of the
\* total, a difference of exactly 0.01 included, is persisted with the bare
\* id of the payer as paid_by.
C13_WithinToleranceIsScalar ==
    Inserted =>
       LET d == lastCall.draft
       IN  (Len(d.paidBy) = 1 /\ NumLeq(PayerOff(d), Hundredth))
              => dbExpenses[1].paid_by = JString(d.paidBy[1].id)

\* C13 as amended: a draft with one payer whose amount differs from the total
\* by less than 0.01 is persisted with the bare id of the payer as paid_by; a
\* difference of exactly 0.01 keeps the mapping.
C13_BelowToleranceIsScalar ==
    Inserted =>
       LET d == lastCall.draft
       IN  /\ (Len(d.paidBy) = 1 /\ NumLess(PayerOff(d), Hundredth))
                 => dbExpenses[1].paid_by = JString(d.paidBy[1].id)
           /\ (Len(d.paidBy) = 1 /\ PayerOff(d) = Hundredth)
                 => dbExpenses[1].paid_by = JObject(d.paidBy)

C13_Witness ==
    /\ Inserted
    /\ lastCall.draft.amount = Num(100)
    /\ Len(lastCall.draft.paidBy) = 1
    /\ lastCall.draft.paidBy[1].id = "A"
    /\ lastCall.draft.paidBy[1].amt # Num(100)
    /\ NumLess(PayerOff(lastCall.draft), Hundredth)
    /\ dbExpenses[1].paid_by = JString("A")
    /\ dbExpenses[1].amount = Num(100)

\* C14: a draft with no payer, with two payers or more, or with one payer
\* whose amount differs from the total by more than 0.01 is persisted with its
\* paidBy as paid_by, keys and amounts unchanged; two payers of 150 on a total
\* of 300 stay {A: 150, B: 150}.
C14_OtherwiseMappingUnchanged ==
    Inserted =>
       LET d == lastCall.draft
       IN  /\ (\/ Len(d.paidBy) = 0
               \/ Len(d.paidBy) >= 2
               \/ (Len(d.paidBy) = 1 /\ NumLess(Hundredth, PayerOff(d))))
              => /\ dbExpenses[1].paid_by = JObject(d.paidBy)
                 /\ expenses[1].paidBy = d.paidBy
           /\ (d.amount = Num(300) /\ d.paidBy = <<Paid("A", 150), Paid("B", 150)>>)
              => dbExpenses[1].paid_by.map = <<Paid("A", 150), Paid("B", 150)>>

C14_Witness ==
    /\ Inserted
    /\ lastCall.draft.amount = Num(300)
    /\ lastCall.draft.paidBy = <<Paid("A", 150), Paid("B", 150)>>
    /\ dbExpenses[1].paid_by = JObject(<<Paid("A", 150), Paid("B", 150)>>)
    /\ expenses[1].paidBy = <<Paid("A", 150), Paid("B", 150)>>

\* the sum of the values of paidBy
PaidSum(d) ==
    LET sum[j \in 0..Len(d.paidBy)] ==
            IF j = 0 THEN Zero ELSE NumAdd(sum[j - 1], d.paidBy[j].amt)
    IN  sum[Len(d.paidBy)]

\* C15 as stated: the values of paidBy of every draft the form submits sum to
\* its amount within 0.01.
C15_SubmittedPayersSumToAmount ==
    Submitted =>
       NumLeq(NumAbs(NumSub(PaidSum(lastCall.draft), lastCall.draft.amount)), Hundredth)

\* C16 as stated: the amount of every draft the form submits is a number
\* greater than 0.
C16_SubmittedAmountIsPositive ==
    Submitted => Positive(lastCall.draft.amount)

\* C17 as stated: the splitBetween of every draft the form submits is not
\* empty, holds no id twice and holds ids of friends only.
C17_SubmittedSplitIsASetOfFriends ==
    Submitted =>
       LET split == lastCall.draft.splitBetween
       IN  /\ split # << >>
           /\ \A i, j \in 1..Len(split) : i # j => split[i] # split[j]
           /\ \A i \in 1..Len(split) : HasId(friends, split[i])

\* C18 as stated: a fetch in which a query answers with an error or throws
\* leaves userProfile, friends, requests and expenses as they were.
C18_FailedFetchChangesNothing ==
    [][FetchUserDataFailed => UNCHANGED <<userProfile, friends, requests, expenses>>]_vars

\* C19 as stated: an insert or a delete that the backend fails is followed by
\* an alert, and leaves the local expenses as they were.
C19_FailedWriteIsSurfaced ==
    [][(/\ lastCall' # lastCall
        /\ lastCall'.op \in {"add", "delete"}
        /\ lastCall'.result \in {"error", "throw"})
       => /\ lastCall'.alerted
          /\ expenses' = expenses]_vars

\* C20 as stated: when the extraction call throws, or its answer makes
\* handleMagicFill throw, the modal ends up with isThinking false and with
\* isMagicMode false.
C20_FailedMagicFillShowsTheForm ==
    [][(\E r \in MagicResults : HandleMagicFill(r) /\ lastCall'.result = "throw")
       => (~isThinking' /\ ~isMagicMode')]_vars

\* C21: a magic fill whose service answered never fails: with no payer that
\* is a friend the form ends in single-payer mode with the acting user as
\* payer, with no involved id that is a friend splitBetween ends as the whole
\* friends list, and no answer, not even one with a payer without amount,
\* ends in the alert.
C21_PartialAnswerFillsTheForm ==
    [][\A r \in MagicResults :
          (HandleMagicFill(r) /\ r.ok)
          => /\ lastCall'.result = "ok" /\ ~lastCall'.alerted
             /\ (\A i \in 1..Len(r.payers) : ~HasId(friends, r.payers[i].friendId))
                => (~isMultiPayer' /\ singlePayerId' = userProfile.id)
             /\ (\A i \in 1..Len(r.involvedFriendIds) :
                    ~HasId(friends, r.involvedFriendIds[i]))
                => splitBetween' = FriendIds(friends)]_vars

\* a fetch has completed on the requests the backend holds now
FriendsFetched ==
    lastCall.op \in {"fetch", "accept", "remove"} /\ lastCall.result = "ok"
Others == {"B", "C", "D"}
Occurrences(frs, id) == Cardinality({i \in 1..Len(frs) : frs[i].id = id})
Accepted(id) ==
    \E i \in 1..Len(dbRequests) :
       dbRequests[i].status = "accepted" /\ Between(dbRequests[i], Uid, id)

\* C23: after a completed fetch a profile other than the user is in friends,
\* once and not as isMe, exactly when the requests hold an accepted request
\* between it and the user, in either direction; a pending request alone
\* puts nobody in friends.
C23_FriendsAreTheAcceptedRequests ==
    FriendsFetched =>
       \A id \in Others :
          /\ Occurrences(friends, id) = IF Accepted(id) THEN 1 ELSE 0
          /\ \A i \in 1..Len(friends) : friends[i].id = id => ~friends[i].isMe

\* both directions accepted for B, and only a pending request for D
C23_Witness ==
    /\ FriendsFetched
    /\ \E i, j \in 1..Len(dbRequests) :
          /\ dbRequests[i].status = "accepted" /\ dbRequests[i].sender_id = "B"
          /\ dbRequests[j].status = "accepted" /\ dbRequests[j].receiver_id = "B"
    /\ \E i \in 1..Len(dbRequests) :
          dbRequests[i].status = "pending" /\ Between(dbRequests[i], Uid, "D")
    /\ Occurrences(friends, "B") = 1
    /\ Occurrences(friends, "D") = 0

\* C24: a successful handleRemoveFriend(f) leaves no request between the
\* user and f in either direction, leaves every other request as it was, and
\* the fetch that follows leaves f out of friends.
C24_RemoveDeletesBothDirections ==
    [][\A f \in Others :
          HandleRemoveFriend(f, "ok")
          => /\ \A i \in 1..Len(dbRequests') : ~Between(dbRequests'[i], Uid, f)
             /\ dbRequests' = SelectSeq(dbRequests, LAMBDA req : ~Between(req, Uid, f))
             /\ ~HasId(friends', f)]_vars

\* B was removed while requests with others stay, and C is still a friend
C24_Witness ==
    /\ lastCall.op = "remove" /\ lastCall.result = "ok" /\ lastCall.id = "B"
    /\ ~HasId(friends, "B")
    /\ HasId(friends, "C")
    /\ \A i \in 1..Len(dbRequests) : ~Between(dbRequests[i], Uid, "B")
    /\ \E i \in 1..Len(dbRequests) : dbRequests[i].id = "r4"

\* C25: a draft with at least one payer that is inserted and fetched back
\* comes back with its amount, its splitBetween and its paidBy, key for key
\* and amount for amount, a single payer within 0.01 of the total included.
C25_EncodeThenNormalizeIsTheDraft ==
    Inserted =>
       LET d == lastCall.draft
       IN  Len(d.paidBy) > 0
           => /\ expenses[1].amount = d.amount
              /\ expenses[1].splitBetween = d.splitBetween
              /\ expenses[1].paidBy = d.paidBy

\* the users of the expenses, and the balances as user u sees them on the
\* expenses of the state, every other user being a friend of u
Users == {"A", "B", "C", "D"}
FriendsOf(u) ==
    <<[id |-> u, isMe |-> TRUE]>>
    \o SelectSeq(<<[id |-> "A", isMe |-> FALSE], [id |-> "B", isMe |-> FALSE],
                   [id |-> "C", isMe |-> FALSE], [id |-> "D", isMe |-> FALSE]>>,
                 LAMBDA f : f.id # u)
View(u) == Balances(expenses, [id |-> u], FriendsOf(u))
\* the amount of the entry of id, 0 when there is none
EntryOrZero(bals, id) ==
    IF HasKey(bals, id)
    THEN bals[CHOOSE i \in 1..Len(bals) : bals[i].friendId = id].amount
    ELSE Zero

\* C29: on expenses with amount > 0 and non-empty splits, the balance of v
\* as u sees it is the negation of the balance of u as v sees it, for the
\* acting user against everybody and for every other pair of users.
C29_BalancesAreMirrored ==
    (Loaded /\ Splittable(expenses)) =>
       /\ \A v \in Users \ {userProfile.id} :
             /\ IsFinite(EntryOrZero(balances, v))
             /\ EntryOrZero(balances, v)
                   = NumNeg(EntryOrZero(View(v), userProfile.id))
       /\ \A u, v \in Users :
             u # v => EntryOrZero(View(u), v) = NumNeg(EntryOrZero(View(v), u))

\* A and B both paid and both consumed, and B paid for A once more
C29_Witness ==
    /\ Loaded
    /\ Splittable(expenses)
    /\ Len(expenses) = 2
    /\ {expenses[1].id, expenses[2].id} = {"e2", "e3"}
    /\ "B" \in NonSelfIds(friends)
    /\ NumLess(EntryOrZero(balances, "B"), Zero)
    /\ NumLess(Zero, EntryOrZero(View("B"), "A"))
    /\ EntryOrZero(balances, "B") = NumNeg(EntryOrZero(View("B"), "A"))

\* the entries of friends marked isMe
Me(frs) == {i \in 1..Len(frs) : frs[i].isMe}
\* no call of fetchUserData awaits an answer
Settled == InFlight = {}

\* C22: whenever the profile is loaded, friends holds exactly one entry with
\* isMe, and it has the id of the acting user, during a fetch too, after a
\* sign-out and a sign-in, and after handleProfileUpdate.
C22_TheUserIsTheOnlyMe ==
    userProfile # NullProfile =>
       /\ Cardinality(Me(friends)) = 1
       /\ \A i \in Me(friends) : friends[i].id = userProfile.id

\* C26: with a session and no call of fetchUserData awaiting an answer,
\* userProfile, friends, requests and expenses are what the answers of the
\* call started last make them.
C26_StateIsOfTheLastStartedFetch ==
    (session = Uid /\ Settled /\ Len(calls) = 1 /\ calls[1].at = "done") =>
       LET last == calls[1]
       IN  /\ userProfile = last.profile
           /\ friends = Confirmed(last.reqs, Uid, 1,
                                  <<[id |-> last.profile.id, isMe |-> TRUE]>>)
           /\ requests = Pending(last.reqs, Uid)
           /\ expenses = formattedExpenses(last.exps)

\* C27: after the auth callback was called with no session and every call
\* of fetchUserData has ended, userProfile is null and friends and expenses
\* are empty.
C27_SignOutLeavesNothing ==
    (session = NoSession /\ lastCall.op = "auth" /\ lastCall.result = "none" /\ Settled)
       => /\ userProfile = NullProfile
          /\ friends = << >>
          /\ expenses = << >>

\* C30: loading becomes false in the end, whatever getSession and the
\* queries of fetchUserData do, provided they return or throw.
C30_LoadingEnds == <>(~loading)

\* getSession gave a session, the fetch it started threw, and loading is
\* false
C30_Witness ==
    /\ ~loading
    /\ lastCall.op = "getSession"
    /\ lastCall.result = "session"
    /\ Len(calls) = 1
    /\ calls[1].at = "thrown"

\* C28: a fetch that completes while the add-expense modal is open leaves
\* the draft (amount, description, payer mode, payers, splitBetween) as the
\* user made it.
C28_RefreshKeepsTheDraft ==
    [][(isAddModalOpen /\ FetchUserData) => UNCHANGED fieldVars]_vars

=============================================================================
